---- MODULE Spec2Model ----
(***************************************************************************)
(* Model of personal_janitor.py: one scan pass of check_files_in_dir over   *)
(* a directory, the extension rules, the age test, move_file and            *)
(* make_unique, on an abstract file system.                                 *)
(*                                                                         *)
(* File names and extensions are sequences of one-character strings, so    *)
(* that str.endswith, str.upper, Path.stem and Path.suffix are computed    *)
(* character by character.  Time is counted in hours.                      *)
(***************************************************************************)
EXTENDS Integers, Sequences, FiniteSets, TLC

VARIABLES
  fs,              \* directory -> (name -> entry): the entries of each directory
  directories,     \* the directories that exist
  zips_extensions, \* the user-editable list of line 133
  base_folder,     \* argument of check_files_in_dir
  runs,            \* one record per call of check_files_in_dir: clock and state
  listing,         \* the DirEntry objects os.scandir yields in this call
  idx,             \* position of the for loop in listing
  hits,            \* (extension, destination) pairs whose if-body ran for the last entry
  log,             \* the records written by logging.info
  fs0              \* fs when the running (or last) call started

vars == <<fs, directories, zips_extensions, base_folder, runs, listing, idx, hits, log, fs0>>

----------------------------------------------------------------------------
\* Bounds of the model.

\* at most this many entries in the scanned directory
MaxEntries == 2

\* at most this many calls of check_files_in_dir
MaxScans == 2

----------------------------------------------------------------------------
\* Module-level configuration (lines 26-133).

source_dir == "Downloads"
dest_dir_three_d == "Documents/3dPrints"
dest_dir_docs == "Documents/Docs"
dest_dir_ebooks == "Documents/eBooks"
dest_dir_excel == "Documents/Excel"
dest_dir_images == "Pictures"
dest_dir_powerbi == "Documents/PowerBI"
dest_dir_powerpoint == "Documents/Powerpoint"
dest_dir_programs == "Documents/Programs"
dest_dir_python == "Documents/Python"
dest_dir_sql == "Documents/SQL"
dest_dir_videos == "Videos"
dest_dir_web == "Documents/Web"
dest_dir_zips == "Documents/Zip"

\* days_threshold = 7 in __main__
days_threshold == 7

\* line 43
three_d_extensions ==
  <<
    <<".","3","m","f">>, <<".","s","t","l">>
  >>

\* line 46
docs_extensions ==
  <<
    <<".","d","o","c">>, <<".","d","o","c","x">>, <<".","j","s","o","n">>,
    <<".","l","o","g">>, <<".","o","d","t">>, <<".","p","d","f">>, <<".","t","x","t">>
  >>

\* line 49
ebooks_extensions ==
  <<
    <<".","e","p","u","b">>, <<".","m","o","b","i">>
  >>

\* line 52
excel_extensions ==
  <<
    <<".","c","s","v">>, <<".","x","l","s">>, <<".","x","l","s","m">>,
    <<".","x","l","s","x">>
  >>

\* line 55
images_extensions ==
  <<
    <<".","j","p","g">>, <<".","j","p","e","g">>, <<".","j","p","e">>,
    <<".","j","i","f">>, <<".","j","f","i","f">>, <<".","j","f","i">>,
    <<".","p","n","g">>, <<".","g","i","f">>, <<".","w","e","b","p">>,
    <<".","t","i","f","f">>, <<".","t","i","f">>, <<".","p","s","d">>,
    <<".","r","a","w">>, <<".","a","r","w">>, <<".","c","r","2">>, <<".","n","r","w">>,
    <<".","k","2","5">>, <<".","b","m","p">>, <<".","d","i","b">>,
    <<".","h","e","i","f">>, <<".","h","e","i","c">>, <<".","i","n","d">>,
    <<".","i","n","d","d">>, <<".","i","n","d","t">>, <<".","j","p","2">>,
    <<".","j","2","k">>, <<".","j","p","f">>, <<".","j","p","x">>, <<".","j","p","m">>,
    <<".","m","j","2">>, <<".","s","v","g">>, <<".","s","v","g","z">>, <<".","a","i">>,
    <<".","e","p","s">>, <<".","i","c","o">>
  >>

\* line 94
powerbi_extensions ==
  <<
    <<".","p","b","i","d","s">>, <<".","p","b","i","t">>, <<".","p","b","i","x">>,
    <<".","p","o","t","x">>, <<".","r","d","l">>
  >>

\* line 97
powerpoint_extensions ==
  <<
    <<".","p","p","t">>, <<".","p","p","t","x">>
  >>

\* line 100
program_extensions ==
  <<
    <<".","A","p","p","I","m","a","g","e">>, <<".","a","p","k">>, <<".","e","x","e">>,
    <<".","m","s","i">>
  >>

\* line 103
python_extensions ==
  <<
    <<".","i","p","y","n","b">>, <<".","p","y">>
  >>

\* line 106
sql_extensions ==
  <<
    <<".","s","q","l">>
  >>

\* line 109
videos_extensions ==
  <<
    <<".","w","e","b","m">>, <<".","m","p","g">>, <<".","m","p","2">>,
    <<".","m","p","e","g">>, <<".","m","p","e">>, <<".","m","p","v">>,
    <<".","o","g","g">>, <<".","m","p","4">>, <<".","m","p","4","v">>,
    <<".","m","4","v">>, <<".","a","v","i">>, <<".","w","m","v">>, <<".","m","o","v">>,
    <<".","q","t">>, <<".","f","l","v">>, <<".","s","w","f">>, <<".","a","v","c","h","d">>
  >>

\* line 130
web_extensions ==
  <<
    <<".","h","t","m">>, <<".","h","t","m","l">>
  >>

\* line 133
shipped_zips_extensions ==
  <<
    <<".","7","z">>, <<".","d","e","b">>, <<".","g","z">>, <<".","r","a","r">>,
    <<".","t","a","r">>, <<".","t","a","r",".","x","y">>, <<".","t","a","r",".","x","z">>,
    <<".","t","g","z">>, <<".","z","i","p">>
  >>

\* The dict built at lines 210-224, in insertion order; zips is the current
\* value of zips_extensions.
extension_mappings(zips) ==
  << [extensions |-> three_d_extensions,    destination_folder |-> dest_dir_three_d],
     [extensions |-> docs_extensions,       destination_folder |-> dest_dir_docs],
     [extensions |-> ebooks_extensions,     destination_folder |-> dest_dir_ebooks],
     [extensions |-> excel_extensions,      destination_folder |-> dest_dir_excel],
     [extensions |-> images_extensions,     destination_folder |-> dest_dir_images],
     [extensions |-> powerbi_extensions,    destination_folder |-> dest_dir_powerbi],
     [extensions |-> powerpoint_extensions, destination_folder |-> dest_dir_powerpoint],
     [extensions |-> program_extensions,    destination_folder |-> dest_dir_programs],
     [extensions |-> python_extensions,     destination_folder |-> dest_dir_python],
     [extensions |-> sql_extensions,        destination_folder |-> dest_dir_sql],
     [extensions |-> videos_extensions,     destination_folder |-> dest_dir_videos],
     [extensions |-> web_extensions,        destination_folder |-> dest_dir_web],
     [extensions |-> zips,                  destination_folder |-> dest_dir_zips] >>

\* The (extension, destination_folder) pairs in the order the two nested for
\* loops of lines 227-229 visit them.
RECURSIVE loop_order(_, _)
loop_order(mappings, k) ==
  IF k > Len(mappings) THEN << >>
  ELSE [j \in 1..Len(mappings[k].extensions) |->
          [extension |-> mappings[k].extensions[j],
           destination_folder |-> mappings[k].destination_folder]]
       \o loop_order(mappings, k + 1)

Directories ==
  {source_dir} \cup {extension_mappings(<< >>)[k].destination_folder : k \in 1..13}

----------------------------------------------------------------------------
\* Strings.

LowerCase ==
  << "a","b","c","d","e","f","g","h","i","j","k","l","m",
     "n","o","p","q","r","s","t","u","v","w","x","y","z" >>

UpperCase ==
  << "A","B","C","D","E","F","G","H","I","J","K","L","M",
     "N","O","P","Q","R","S","T","U","V","W","X","Y","Z" >>

DigitChars ==
  << "0","1","2","3","4","5","6","7","8","9" >>

\* the character maps of str.upper and str.lower
to_upper ==
  [c \in {LowerCase[k] : k \in 1..Len(LowerCase)} |->
     UpperCase[CHOOSE k \in 1..Len(LowerCase) : LowerCase[k] = c]]

to_lower ==
  [c \in {UpperCase[k] : k \in 1..Len(UpperCase)} |->
     LowerCase[CHOOSE k \in 1..Len(UpperCase) : UpperCase[k] = c]]

\* str.upper
upper(s) ==
  [i \in 1..Len(s) |-> IF s[i] \in DOMAIN to_upper THEN to_upper[s[i]] ELSE s[i]]

\* str.lower
lower(s) ==
  [i \in 1..Len(s) |-> IF s[i] \in DOMAIN to_lower THEN to_lower[s[i]] ELSE s[i]]

\* str.endswith
endswith(s, suffix) ==
  /\ Len(suffix) <= Len(s)
  /\ SubSeq(s, Len(s) - Len(suffix) + 1, Len(s)) = suffix

\* str(counter) for counter >= 0, as in the f-strings of lines 159 and 161
RECURSIVE str(_)
str(n) ==
  IF n < 10 THEN << DigitChars[n + 1] >>
  ELSE str(n \div 10) \o << DigitChars[(n % 10) + 1] >>

\* str.rfind("."), 1-based; 0 when there is no dot
rfind_dot(s) ==
  IF \E i \in 1..Len(s) : s[i] = "."
  THEN CHOOSE i \in 1..Len(s) : s[i] = "." /\ \A j \in (i + 1)..Len(s) : s[j] # "."
  ELSE 0

\* Path.suffix: the part from the last dot on, empty when the last dot is the
\* first or the last character of the name
suffix_of(s) ==
  LET i == rfind_dot(s)
  IN IF 1 < i /\ i < Len(s) THEN SubSeq(s, i, Len(s)) ELSE << >>

\* Path.stem
stem_of(s) ==
  LET i == rfind_dot(s)
  IN IF 1 < i /\ i < Len(s) THEN SubSeq(s, 1, i - 1) ELSE s

\* The test of line 230.
extension_matches(name, extension) ==
  endswith(name, extension) \/ endswith(name, upper(extension))

----------------------------------------------------------------------------
\* The file system.  An entry is a record
\*   kind     "file", "dir", "symlink" (a link to a regular file outside the
\*            modelled directories) or "special" (fifo, socket, device)
\*   content  what the entry holds; every initial entry holds its own
\*   mtime, ctime  in hours
\*   readable the timestamps os.stat can deliver for it
\*   child    for a directory called n: the content of the entry n inside it,
\*            NoChild when the directory has no such entry

NoChild == << >>

\* DirEntry.is_file() and os.path.isfile: both follow symbolic links
is_file(entry) == entry.kind \in {"file", "symlink"}

\* os.path.isdir
is_dir(entry) == entry.kind = "dir"

\* os.path.isfile(f"{destination}/{name}")
isfile_at(F, dir, name) == name \in DOMAIN F[dir] /\ is_file(F[dir][name])

\* Path.exists
exists_at(F, dir, name) == name \in DOMAIN F[dir]

remove_entry(F, dir, name) ==
  [F EXCEPT ![dir] = [n \in (DOMAIN F[dir]) \ {name} |-> F[dir][n]]]

\* os.rename onto dir/name: an existing non-directory entry is replaced
put_entry(F, dir, name, entry) ==
  [F EXCEPT ![dir] = [n \in (DOMAIN F[dir]) \cup {name} |->
                        IF n = name THEN entry ELSE F[dir][n]]]

put_inside(F, dir, name, entry) ==
  [F EXCEPT ![dir][name].child = entry.content]

\* make_unique, lines 150-161
RECURSIVE first_free_counter(_, _, _, _)
first_free_counter(entries, stem, suffix, counter) ==
  IF (stem \o << "(" >> \o str(counter) \o << ")" >> \o suffix) \in DOMAIN entries
  THEN first_free_counter(entries, stem, suffix, counter + 1)
  ELSE counter

make_unique(F, destination, name) ==
  IF ~exists_at(F, destination, name) THEN name
  ELSE LET stem == stem_of(name)
           suffix == suffix_of(name)
           counter == first_free_counter(F[destination], stem, suffix, 1)
       IN stem \o << "(" >> \o str(counter) \o << ")" >> \o suffix

----------------------------------------------------------------------------
\* Timestamps.  os.path.getmtime and os.path.getctime stat the path: they
\* raise when the entry is gone or the timestamp cannot be read.

NoException == "none"

getmtime(F, dir, name) ==
  IF ~exists_at(F, dir, name) THEN [raised |-> "FileNotFoundError", t |-> 0]
  ELSE IF "mtime" \notin F[dir][name].readable THEN [raised |-> "OSError", t |-> 0]
  ELSE [raised |-> NoException, t |-> F[dir][name].mtime]

getctime(F, dir, name) ==
  IF ~exists_at(F, dir, name) THEN [raised |-> "FileNotFoundError", t |-> 0]
  ELSE IF "ctime" \notin F[dir][name].readable THEN [raised |-> "OSError", t |-> 0]
  ELSE [raised |-> NoException, t |-> F[dir][name].ctime]

\* lines 232-243: the modification time, and in the except branch the
\* creation time; an exception of the except branch is not caught
reference_time(F, dir, name) ==
  LET modification_time == getmtime(F, dir, name)
  IN IF modification_time.raised = NoException THEN modification_time
     ELSE getctime(F, dir, name)

\* timedelta.days of a difference given in hours: the floor
days_of(difference) == difference \div 24

\* the comparison of line 245 written with >=
over_threshold_inclusive(days) == days >= days_threshold

\* line 245
over_threshold(days) == days > days_threshold

----------------------------------------------------------------------------
\* The moves.  A running call is the record st of the values it has reached:
\* fs, directories, log, hits, and raised (the exception that left it).

\* shutil.move(source, dest_name): into dest_name when that is a directory
\* (refused when it already holds an entry of the source's name), else
\* os.rename onto dest_name
shutil_move(st, base, name, destination, dest_name) ==
  LET entry == st.fs[base][name]
      taken == remove_entry(st.fs, base, name)
  IN IF exists_at(st.fs, destination, dest_name) /\ is_dir(st.fs[destination][dest_name])
     THEN IF st.fs[destination][dest_name].child # NoChild
          THEN [st EXCEPT !.raised = "shutil.Error"]
          ELSE [st EXCEPT !.fs = put_inside(taken, destination, dest_name, entry)]
     ELSE [st EXCEPT !.fs = put_entry(taken, destination, dest_name, entry)]

\* line 189 at a level that line 267 disables: the record is dropped
log_moved_disabled(records, record) == records

\* line 189
log_moved(records, record) == Append(records, record)

\* move_file, lines 182-189
move_file(st, base, destination, name, asctime) ==
  LET dest_name == IF isfile_at(st.fs, destination, name)
                   THEN make_unique(st.fs, destination, name)
                   ELSE name
      moved == shutil_move(st, base, name, destination, dest_name)
  IN IF moved.raised # NoException THEN moved
     ELSE [moved EXCEPT !.log = log_moved(@, [asctime |-> asctime, name |-> name,
                                               destination |-> destination,
                                               dest_name |-> dest_name])]

\* The body of the if of line 230, lines 232-248.
match_body(st, base, name, rule, current_date) ==
  LET reference == reference_time(st.fs, base, name)
      entered == [st EXCEPT !.hits = Append(@, rule)]
  IN IF reference.raised # NoException
     THEN [entered EXCEPT !.raised = reference.raised]
     ELSE IF over_threshold(days_of(current_date - reference.t))
          THEN move_file([entered EXCEPT !.directories = @ \cup {rule.destination_folder}],
                         base, rule.destination_folder, name, current_date)
          ELSE entered

\* The two nested for loops of lines 227-248 over one entry: no break, so
\* every matching pair runs the body until an exception leaves the call.
RECURSIVE for_rules(_, _, _, _, _, _)
for_rules(st, pairs, k, base, name, current_date) ==
  IF k > Len(pairs) \/ st.raised # NoException THEN st
  ELSE IF extension_matches(name, pairs[k].extension)
       THEN for_rules(match_body(st, base, name, pairs[k], current_date),
                      pairs, k + 1, base, name, current_date)
       ELSE for_rules(st, pairs, k + 1, base, name, current_date)

----------------------------------------------------------------------------
\* The inputs.

a_txt == << "a", ".", "t", "x", "t" >>
a_Txt == << "a", ".", "T", "x", "t" >>
b_appimage == << "b", ".", "a", "p", "p", "i", "m", "a", "g", "e" >>
w_xyz == << "w", ".", "x", "y", "z" >>
r_tar_gz == << "r", ".", "t", "a", "r", ".", "g", "z" >>
a_1_txt == << "a", "(", "1", ")", ".", "t", "x", "t" >>

\* zips_extensions as shipped, and after the user added ".tar.gz" to it.
\* No name matches two suffixes of the shipped lists; with the added suffix
\* a name ending in ".tar.gz" matches ".gz" and ".tar.gz".
ZipsChoices ==
  { shipped_zips_extensions,
    Append(shipped_zips_extensions, << ".", "t", "a", "r", ".", "g", "z" >>) }

\* the clock of the first call, and one day later
Clock == {1000, 1024}

Profile(kind, mtime_age, ctime_age, readable) ==
  [kind |-> kind, mtime |-> 1000 - mtime_age, ctime |-> 1000 - ctime_age,
   readable |-> readable]

Old == Profile("file", 240, 240, {"mtime", "ctime"})

\* 7 days and 23 hours at the first clock value, younger by creation
Boundary == Profile("file", 191, 400, {"mtime", "ctime"})

\* the entries the scanned directory can hold under each name
Profiles(name) ==
  IF name = a_txt
  THEN { Old, Boundary,
         Profile("file", 0 - 5, 0 - 5, {"mtime", "ctime"}),
         Profile("file", 0, 240, {"ctime"}),
         Profile("file", 240, 72, {"ctime"}),
         Profile("file", 240, 240, {}),
         Profile("dir", 240, 240, {"mtime", "ctime"}),
         Profile("symlink", 240, 240, {"mtime", "ctime"}),
         Profile("special", 240, 240, {"mtime", "ctime"}) }
  ELSE IF name = r_tar_gz THEN { Old, Boundary }
  ELSE { Old }

SourceNames == { a_txt, a_Txt, b_appimage, w_xyz, r_tar_gz }

NoContent == [dir |-> "", name |-> << >>, inner |-> FALSE]

Entry(dir, name, profile, child) ==
  [kind |-> profile.kind, mtime |-> profile.mtime, ctime |-> profile.ctime,
   readable |-> profile.readable,
   content |-> [dir |-> dir, name |-> name, inner |-> FALSE],
   child |-> child]

Recent == Profile("file", 10, 10, {"mtime", "ctime"})

\* what dest_dir_docs holds before the first call
DocsChoices ==
  LET D == dest_dir_docs
      inner == [dir |-> D, name |-> a_txt, inner |-> TRUE]
      emptydir == Profile("dir", 10, 10, {"mtime", "ctime"})
  IN { << >>,
       (a_txt :> Entry(D, a_txt, Recent, NoChild)),
       (a_txt :> Entry(D, a_txt, Recent, NoChild))
          @@ (a_1_txt :> Entry(D, a_1_txt, Recent, NoChild)),
       (a_txt :> Entry(D, a_txt, emptydir, NoChild)),
       (a_txt :> Entry(D, a_txt, emptydir, inner)) }

----------------------------------------------------------------------------
\* The state machine.

state == IF runs = << >> THEN "idle" ELSE runs[Len(runs)].state

current_date == runs[Len(runs)].current_date

Init ==
  /\ zips_extensions \in ZipsChoices
  /\ base_folder \in {source_dir, dest_dir_docs}
  /\ \E names \in SUBSET SourceNames :
       /\ Cardinality(names) <= MaxEntries
       /\ \E profile \in [names -> UNION {Profiles(n) : n \in names}] :
            /\ \A n \in names : profile[n] \in Profiles(n)
            /\ \E docs \in DocsChoices :
                 /\ base_folder = dest_dir_docs => docs = << >>
                 /\ fs = [d \in Directories |->
                            IF d = base_folder
                            THEN [n \in names |-> Entry(d, n, profile[n], NoChild)]
                            ELSE IF d = dest_dir_docs THEN docs
                            ELSE << >>]
                 /\ directories = {source_dir, base_folder}
                                    \cup (IF docs = << >> THEN {} ELSE {dest_dir_docs})
  /\ runs = << >>
  /\ listing = << >>
  /\ idx = 1
  /\ hits = << >>
  /\ log = << >>
  /\ fs0 = fs

\* check_files_in_dir is called: lines 205-206.  os.scandir yields the
\* entries base_folder holds when the call starts, in an arbitrary order.
StartScan ==
  /\ state # "running"
  /\ Len(runs) < MaxScans
  /\ \E now \in Clock :
       /\ runs # << >> => now >= current_date
       /\ runs' = Append(runs, [current_date |-> now, state |-> "running",
                                exception |-> NoException])
  /\ \E order \in [1..Cardinality(DOMAIN fs[base_folder]) -> DOMAIN fs[base_folder]] :
       /\ \A i, j \in DOMAIN order : i # j => order[i] # order[j]
       /\ listing' = order
  /\ idx' = 1
  /\ hits' = << >>
  /\ fs0' = fs
  /\ UNCHANGED <<fs, directories, zips_extensions, base_folder, log>>

\* line 207 is false: the entry is passed over
SkipEntry ==
  /\ state = "running"
  /\ idx <= Len(listing)
  /\ ~is_file(fs[base_folder][listing[idx]])
  /\ idx' = idx + 1
  /\ hits' = << >>
  /\ UNCHANGED <<fs, directories, zips_extensions, base_folder, runs, listing, log, fs0>>

\* lines 207-248 for one regular file
ExamineEntry ==
  /\ state = "running"
  /\ idx <= Len(listing)
  /\ is_file(fs[base_folder][listing[idx]])
  /\ \E st \in {for_rules([fs |-> fs, directories |-> directories, log |-> log,
                           hits |-> << >>, raised |-> NoException],
                          loop_order(extension_mappings(zips_extensions), 1), 1,
                          base_folder, listing[idx], current_date)} :
        /\ fs' = st.fs
        /\ directories' = st.directories
        /\ log' = st.log
        /\ hits' = st.hits
        /\ IF st.raised = NoException
           THEN idx' = idx + 1 /\ runs' = runs
           ELSE /\ idx' = idx
                /\ runs' = [runs EXCEPT ![Len(runs)].state = "raised",
                                        ![Len(runs)].exception = st.raised]
  /\ UNCHANGED <<zips_extensions, base_folder, listing, fs0>>

\* the for loop of line 206 is exhausted: the call returns
Return ==
  /\ state = "running"
  /\ idx > Len(listing)
  /\ runs' = [runs EXCEPT ![Len(runs)].state = "done"]
  /\ UNCHANGED <<fs, directories, zips_extensions, base_folder, listing, idx, hits, log, fs0>>

Next == StartScan \/ SkipEntry \/ ExamineEntry \/ Return

Spec == Init /\ [][Next]_vars

----------------------------------------------------------------------------
\* Vocabulary of the properties.

Finished == state \in {"done", "raised"}

\* the pairs of the two nested loops under the current configuration
Pairs == loop_order(extension_mappings(zips_extensions), 1)

\* the destination of the first pair the test of line 230 accepts for name
MatchedPairs(name) == {k \in 1..Len(Pairs) : extension_matches(name, Pairs[k].extension)}

FirstDestination(name) ==
  Pairs[CHOOSE k \in MatchedPairs(name) : \A j \in MatchedPairs(name) : k <= j].destination_folder

\* the pairs whose suffix equals the tail of name when letter case is ignored
PairsIgnoringCase(name) ==
  {k \in 1..Len(Pairs) : endswith(lower(name), lower(Pairs[k].extension))}

\* age in whole days by the reference timestamp (modification time, else
\* creation time); defined for entries with a readable timestamp
HasAge(entry) == entry.readable # {}

AgeDays(entry, now) ==
  days_of(now - (IF "mtime" \in entry.readable THEN entry.mtime ELSE entry.ctime))

\* where the content c sits in directory d of F: as an entry of d, or inside
\* a directory of d
PlacesIn(F, d, c) ==
  {<<n, "entry">> : n \in {m \in DOMAIN F[d] : F[d][m].content = c}}
    \cup {<<n, "inside">> : n \in {m \in DOMAIN F[d] : F[d][m].child = c}}

\* the entry the for loop has reached, while the call runs
AtEntry == state = "running" /\ idx <= Len(listing)

\* the entry the last step of the loop dealt with
LastName == IF state = "raised" THEN listing[idx] ELSE listing[idx - 1]

HasLast == state # "idle" /\ (state = "raised" \/ idx > 1)

----------------------------------------------------------------------------
\* C1: after a call of check_files_in_dir, every regular file of the scanned
\* directory whose name matches a rule and whose age in whole days exceeds
\* the threshold is absent from the scanned directory and sits at exactly
\* one path inside the destination directory of its rule, content unchanged.
C1_MovedExactlyOnce ==
  Finished =>
    \A n \in DOMAIN fs0[base_folder] :
      LET entry == fs0[base_folder][n]
      IN (/\ entry.kind = "file"
          /\ MatchedPairs(n) # {}
          /\ HasAge(entry)
          /\ AgeDays(entry, current_date) > days_threshold)
         => /\ PlacesIn(fs, base_folder, entry.content) = {}
            /\ Cardinality(PlacesIn(fs, FirstDestination(n), entry.content)) = 1

\* C2: a file whose age in whole days is at most the threshold (equal to it
\* and in the future included) is left untouched by every step of a call:
\* same path, same entry, and the step that examines it moves nothing and
\* creates no directory.
C2_YoungUntouched ==
  [][state = "running" =>
       \A n \in DOMAIN fs[base_folder] :
         LET entry == fs[base_folder][n]
         IN (/\ is_file(entry)
             /\ HasAge(entry)
             /\ AgeDays(entry, current_date) <= days_threshold)
            => /\ n \in DOMAIN fs'[base_folder]
               /\ fs'[base_folder][n] = entry
               /\ (AtEntry /\ listing[idx] = n)
                    => (fs' = fs /\ directories' = directories /\ log' = log)]_vars

\* a call has returned that examined a file aged exactly the threshold and
\* left it in place, and moved another file
C2_Witness ==
  /\ state = "done"
  /\ log # << >>
  /\ \E n \in DOMAIN fs0[base_folder] :
       /\ is_file(fs0[base_folder][n])
       /\ AgeDays(fs0[base_folder][n], current_date) = days_threshold
       /\ n \in DOMAIN fs[base_folder]
       /\ fs[base_folder][n] = fs0[base_folder][n]

\* C3: a regular file is matched to the first rule holding a suffix equal to
\* the tail of its name when letter case is ignored, and to no rule when
\* there is no such suffix.
C3_CaseInsensitive ==
  (HasLast /\ fs0[base_folder][LastName].kind = "file") =>
    IF PairsIgnoringCase(LastName) = {}
    THEN hits = << >>
    ELSE /\ hits # << >>
         /\ \E k \in PairsIgnoringCase(LastName) :
              /\ \A j \in PairsIgnoringCase(LastName) : k <= j
              /\ hits[1].destination_folder = Pairs[k].destination_folder

\* C4: no exception leaves the body of the loop, so no call ends before the
\* last entry of its listing.
C4_EntriesIsolated ==
  \A i \in DOMAIN runs : runs[i].state # "raised"

\* C5: a move into a destination that already holds an entry called name
\* stores the file as stem(k)suffix for the smallest k >= 1 that is free
\* there, and every entry the destination held before keeps its name and
\* content.
C5_CollisionSafe ==
  [][(AtEntry /\ Len(log') = Len(log) + 1) =>
       LET record == log'[Len(log')]
           name == record.name
           destination == record.destination
           content == fs[base_folder][name].content
           counter == first_free_counter(fs[destination], stem_of(name), suffix_of(name), 1)
           expected == stem_of(name) \o << "(" >> \o str(counter) \o << ")" >> \o suffix_of(name)
       IN /\ name \in DOMAIN fs[destination]
            => PlacesIn(fs', destination, content) = {<<expected, "entry">>}
          /\ \A m \in DOMAIN fs[destination] :
               (destination = base_folder /\ m = name)
               \/ (m \in DOMAIN fs'[destination] /\ fs'[destination][m] = fs[destination][m])]_vars

\* C6: a second call at the same clock, after a first call that returned,
\* moves nothing: every entry is where the first call left it.
C6_Idempotent ==
  (/\ Len(runs) >= 2
   /\ runs[Len(runs)].state = "done"
   /\ runs[Len(runs) - 1].state = "done"
   /\ runs[Len(runs)].current_date = runs[Len(runs) - 1].current_date)
  => fs = fs0

\* C7: every entry of the scanned directory that is a directory, a symbolic
\* link or a special file stays at its path, unchanged.
C7_NonRegularUntouched ==
  state # "idle" =>
    \A n \in DOMAIN fs0[base_folder] :
      fs0[base_folder][n].kind \in {"dir", "symlink", "special"}
        => /\ n \in DOMAIN fs[base_folder]
           /\ fs[base_folder][n] = fs0[base_folder][n]

\* C8: for one file, the body of line 230 runs for the first matching
\* suffix only: at most one timestamp read, directory creation and move.
C8_FirstRuleOnly ==
  Len(hits) <= 1

C10_FreshDirectChild ==
  [][(AtEntry /\ Len(log') = Len(log) + 1) =>
       LET record == log'[Len(log')]
           content == fs[base_folder][record.name].content
       IN /\ record.dest_name \notin DOMAIN fs[record.destination]
          /\ PlacesIn(fs', record.destination, content) = {<<record.dest_name, "entry">>}]_vars
====
